---- MODULE Spec2Model ----
(***************************************************************************)
(* pass2bitwarden: the field-extraction engine of pass2bw.py (parse and    *)
(* _guess_uri) under the field specification of defaults.py.               *)
(*                                                                         *)
(* Strings are TLA+ strings; TLC evaluates Len, \o and SubSeq on them, so  *)
(* a character is a string of length one.  The only line boundary of the   *)
(* modelled alphabet is "\n".                                              *)
(***************************************************************************)
EXTENDS Integers, Sequences, FiniteSets, TLC

(***************************************************************************)
(* Python string primitives                                                *)
(***************************************************************************)

Char(s, i) == SubSeq(s, i, i)

From(s, i) == SubSeq(s, i, Len(s))

Min(a, b) == IF a < b THEN a ELSE b

UPPER == "ABCDEFGHIJKLMNOPQRSTUVWXYZ"

LOWER == "abcdefghijklmnopqrstuvwxyz"

DIGITS == "0123456789"

Contains(chars, c) == \E i \in 1..Len(chars) : Char(chars, i) = c

\* str.lower() on the characters that have an upper case
LowerOf == [c \in {Char(UPPER, i) : i \in 1..Len(UPPER)} |->
               Char(LOWER, CHOOSE i \in 1..Len(UPPER) : Char(UPPER, i) = c)]

\* str.lower() on one character (re.I compares case-folded characters)
Lower(c) == IF c \in DOMAIN LowerOf THEN LowerOf[c] ELSE c

Letters == DOMAIN LowerOf \cup {Char(LOWER, i) : i \in 1..Len(LOWER)}

IsAlpha(c) == c \in Letters

IsAlnumHyphen(c) == IsAlpha(c) \/ (Len(c) = 1 /\ (Contains(DIGITS, c) \/ c = "-"))

\* s.startswith(t, i - 1), 1-based
StartsAt(s, i, t) == i + Len(t) - 1 <= Len(s) /\ SubSeq(s, i, i + Len(t) - 1) = t

\* s.find(t, i - 1) + 1, 1-based; 0 when absent
RECURSIVE Find(_, _, _)
Find(s, t, i) ==
    IF i + Len(t) - 1 > Len(s) THEN 0
    ELSE IF StartsAt(s, i, t) THEN i
    ELSE Find(s, t, i + 1)

\* s.rfind(t) + 1, 1-based; 0 when absent
RECURSIVE RFind(_, _, _)
RFind(s, t, i) ==
    IF i < 1 THEN 0
    ELSE IF StartsAt(s, i, t) THEN i
    ELSE RFind(s, t, i - 1)

\* sep.join(parts)
RECURSIVE Join(_, _)
Join(sep, parts) ==
    IF parts = <<>> THEN ""
    ELSE IF Len(parts) = 1 THEN parts[1]
    ELSE parts[1] \o sep \o Join(sep, Tail(parts))

\* s.splitlines(): no trailing empty line, "" gives no line at all
RECURSIVE SplitLines(_)
SplitLines(s) ==
    IF s = "" THEN <<>>
    ELSE LET n == Find(s, "\n", 1)
         IN  IF n = 0 THEN <<s>>
             ELSE <<SubSeq(s, 1, n - 1)>> \o SplitLines(From(s, n + 1))

\* s.replace(old, new): every non-overlapping occurrence, left to right
RECURSIVE Replace(_, _, _)
Replace(s, old, new) ==
    IF old = "" \/ s = "" THEN s
    ELSE LET n == Find(s, old, 1)
         IN  IF n = 0 THEN s
             ELSE SubSeq(s, 1, n - 1) \o new \o Replace(From(s, n + Len(old)), old, new)

\* s.lstrip(c)
RECURSIVE LStrip(_, _)
LStrip(s, c) == IF s # "" /\ Char(s, 1) = c THEN LStrip(From(s, 2), c) ELSE s

\* s.rstrip(c)
RECURSIVE RStrip(_, _)
RStrip(s, c) ==
    IF s # "" /\ Char(s, Len(s)) = c THEN RStrip(SubSeq(s, 1, Len(s) - 1), c) ELSE s

\* os.path.basename(p): what follows the last "/"
Basename(p) == From(p, RFind(p, "/", Len(p)) + 1)

\* os.path.dirname(p): what precedes the last "/", trailing "/" stripped
\* unless the head is made of "/" only
Dirname(p) ==
    LET head == SubSeq(p, 1, RFind(p, "/", Len(p)))
    IN  IF RStrip(head, "/") # "" THEN RStrip(head, "/") ELSE head

(***************************************************************************)
(* Regular expressions, as re.match(pattern, line, re.I) evaluates them:   *)
(* a pattern is a sequence of items matched left to right by backtracking, *)
(* alternatives in their written order and repetitions greedy.  An item is *)
(*   Lit(alts)               one of the literals alts, tried in order      *)
(*   Rep(neg, chars, min, max, cap)                                        *)
(*                           min..max characters of the class chars        *)
(*                           (complemented when neg); cap marks group 1    *)
(*   EndOfLine               $                                             *)
(***************************************************************************)

Unbounded == -1

Lit(alts) == [kind |-> "lit", alts |-> alts, neg |-> FALSE, chars |-> "",
              min |-> 1, max |-> 1, cap |-> FALSE]

Rep(neg, chars, min, max, cap) ==
    [kind |-> "rep", alts |-> <<>>, neg |-> neg, chars |-> chars,
     min |-> min, max |-> max, cap |-> cap]

EndOfLine == [kind |-> "end", alts |-> <<>>, neg |-> FALSE, chars |-> "",
              min |-> 0, max |-> 0, cap |-> FALSE]

\* "." (any character but a newline)
AnyChar(min, max, cap) == Rep(TRUE, "\n", min, max, cap)

NoMatch == [ok |-> FALSE, group |-> ""]

InClass(it, c) == Contains(it.chars, c) # it.neg

\* case-insensitive comparison of the literal t with s at position i
RECURSIVE LitAt(_, _, _)
LitAt(s, i, t) ==
    IF t = "" THEN TRUE
    ELSE /\ i <= Len(s)
         /\ Lower(Char(s, i)) = Lower(Char(t, 1))
         /\ LitAt(s, i + 1, From(t, 2))

\* the longest run of characters of the item's class from position i
RECURSIVE Run(_, _, _)
Run(it, s, i) ==
    IF i <= Len(s) /\ InClass(it, Char(s, i)) THEN 1 + Run(it, s, i + 1) ELSE 0

RECURSIVE MatchFrom(_, _, _, _)
RECURSIVE TryAlts(_, _, _, _, _)
RECURSIVE TryReps(_, _, _, _, _)

\* the pattern's items k.. against s from position pos
MatchFrom(pat, k, s, pos) ==
    IF k > Len(pat) THEN [ok |-> TRUE, group |-> ""]
    ELSE CASE pat[k].kind = "end" ->
                IF pos = Len(s) + 1 THEN MatchFrom(pat, k + 1, s, pos) ELSE NoMatch
           [] pat[k].kind = "lit" -> TryAlts(pat, k, s, pos, 1)
           [] pat[k].kind = "rep" ->
                LET run == Run(pat[k], s, pos)
                IN  TryReps(pat, k, s, pos,
                            IF pat[k].max = Unbounded THEN run ELSE Min(run, pat[k].max))

\* alternatives a.. of the literal item k
TryAlts(pat, k, s, pos, a) ==
    IF a > Len(pat[k].alts) THEN NoMatch
    ELSE LET rest == IF LitAt(s, pos, pat[k].alts[a])
                     THEN MatchFrom(pat, k + 1, s, pos + Len(pat[k].alts[a]))
                     ELSE NoMatch
         IN  IF rest.ok THEN rest ELSE TryAlts(pat, k, s, pos, a + 1)

\* n, n-1, .. min repetitions of the class item k (greedy)
TryReps(pat, k, s, pos, n) ==
    IF n < pat[k].min THEN NoMatch
    ELSE LET rest == MatchFrom(pat, k + 1, s, pos + n)
         IN  IF rest.ok
             THEN IF pat[k].cap
                  THEN [ok |-> TRUE, group |-> SubSeq(s, pos, pos + n - 1)]
                  ELSE rest
             ELSE TryReps(pat, k, s, pos, n - 1)

\* re.match(pattern, line, re.I): anchored at the start of the line;
\* .ok is the truth of the match object, .group is match.group(1)
ReMatch(pat, line) == MatchFrom(pat, 1, line, 1)

(***************************************************************************)
(* defaults.py                                                             *)
(***************************************************************************)

CSV_FIELDS == <<"name", "folder", "type", "favorite", "notes", "fields",
                "login_totp", "login_uri", "login_username", "login_password">>

FIELD_DEFAULTS == <<[field |-> "type", value |-> "login"]>>

\* 'name': lambda base, path, data: os.path.basename(path)
NameOf(base, path, data) == Basename(path)

\* 'folder': lambda base, path, data:
\*     os.path.dirname(path).replace(base, '').lstrip('/')
FolderOf(base, path, data) == LStrip(Replace(Dirname(path), base, ""), "/")

FIELD_FUNCTION_NAMES == <<"name", "folder">>

FIELD_FUNCTIONS(field, base, path, data) ==
    IF field = "name" THEN NameOf(base, path, data) ELSE FolderOf(base, path, data)

\* '^url ?: ?(.*)$'
UriPattern ==
    << Lit(<<"url">>), Rep(FALSE, " ", 0, 1, FALSE), Lit(<<":">>),
       Rep(FALSE, " ", 0, 1, FALSE), AnyChar(0, Unbounded, TRUE), EndOfLine >>

\* '^(?:user|login|username).* ?: ?(.*)$'
UsernamePattern ==
    << Lit(<<"user", "login", "username">>), AnyChar(0, Unbounded, FALSE),
       Rep(FALSE, " ", 0, 1, FALSE), Lit(<<":">>), Rep(FALSE, " ", 0, 1, FALSE),
       AnyChar(0, Unbounded, TRUE), EndOfLine >>

\* r'otpauth://totp/[^?]+\?secret=([^&]+)'
TotpPattern ==
    << Lit(<<"otpauth://totp/">>), Rep(TRUE, "?", 1, Unbounded, FALSE),
       Lit(<<"?secret=">>), Rep(TRUE, "&", 1, Unbounded, TRUE) >>

\* the dict in its insertion order
DefaultPatterns ==
    << [field |-> "login_uri", pattern |-> UriPattern],
       [field |-> "login_username", pattern |-> UsernamePattern],
       [field |-> "login_totp", pattern |-> TotpPattern] >>

FALLBACK_FIELD == "notes"

FIRSTLINE_IS_LOGIN_PASSWORD == TRUE

(***************************************************************************)
(* pass2bw.py: DOMAIN_REGEX and _guess_uri                                 *)
(***************************************************************************)

LabelMin == 1

LabelMax == 63

TldMin == 2

TldMax == 6

\* ((?!-)[A-Za-z0-9-]{1,63}(?<!-)\.)+ from position pos: the positions that
\* follow one or more labels
RECURSIVE LabelEnds(_, _)
LabelEnds(s, pos) ==
    LET dot == Find(s, ".", pos)
        n == dot - pos
        label == /\ dot # 0
                 /\ n >= LabelMin /\ n <= LabelMax
                 /\ \A i \in pos..(dot - 1) : IsAlnumHyphen(Char(s, i))
                 /\ Char(s, pos) # "-"
                 /\ Char(s, dot - 1) # "-"
    IN  IF label THEN {dot + 1} \cup LabelEnds(s, dot + 1) ELSE {}

\* re.search(DOMAIN_REGEX, s): "^" holds at the start of s only, and nothing
\* anchors the end
DomainSearch(s) ==
    \E p \in LabelEnds(s, 1) : \E n \in TldMin..TldMax :
        /\ p + n - 1 <= Len(s)
        /\ \A i \in p..(p + n - 1) : IsAlpha(Char(s, i))

\* a Python dict as a function of its keys
Put(row, field, value) ==
    [k \in DOMAIN row \cup {field} |-> IF k = field THEN value ELSE row[k]]

EmptyRow == [k \in {} |-> ""]

_guess_uri(row) ==
    IF "login_uri" \notin DOMAIN row THEN ""
    ELSE IF DomainSearch(row["name"]) THEN row["name"]
    ELSE ""

(***************************************************************************)
(* The inputs of parse: the base directory, the decrypted entries and the  *)
(* field patterns (pass2bw.py imports them from a config module when there *)
(* is one, from defaults.py otherwise).                                    *)
(***************************************************************************)

\* a config module whose username pattern also claims "url" lines:
\* '^(?:user|login|username|url).* ?: ?(.*)$'
OverlapUsernamePattern ==
    << Lit(<<"user", "login", "username", "url">>), AnyChar(0, Unbounded, FALSE),
       Rep(FALSE, " ", 0, 1, FALSE), Lit(<<":">>), Rep(FALSE, " ", 0, 1, FALSE),
       AnyChar(0, Unbounded, TRUE), EndOfLine >>

OverlapPatterns ==
    << [field |-> "login_uri", pattern |-> UriPattern],
       [field |-> "login_username", pattern |-> OverlapUsernamePattern],
       [field |-> "login_totp", pattern |-> TotpPattern] >>

PatternConfigs == {DefaultPatterns, OverlapPatterns}

\* the most lines that follow an entry's first line
MaxLines == 3

\* the most entries of one call of parse
MaxFiles == 3

\* password stores, and the entry paths traverse and decrypt give (the ".gpg" cut)
BaseDirs == {"/s", "/s/w"}

Paths == {"/s/a.io", "/s/w/mail", "/s/w/s/a.io1"}

\* first lines: a password, and one that the url pattern would match
FirstLines == {"pw", "url: z"}

\* further lines: two url lines (the patterns ignore case), a line that no
\* pattern matches, a TOTP URI

SampleLines == {"url: a", "URL :b", "foo", "otpauth://totp/n?secret=K&p=1"}

\* the sequences over S of length n at most
RECURSIVE SeqsUpTo(_, _)
SeqsUpTo(S, n) ==
    IF n = 0 THEN {<<>>}
    ELSE LET shorter == SeqsUpTo(S, n - 1)
         IN  shorter \cup {Append(q, e) : q \in shorter, e \in S}

\* the empty text, and a first line followed by up to MaxLines lines
Texts ==
    {""} \cup {Join("\n", <<f>> \o q) : f \in FirstLines, q \in SeqsUpTo(SampleLines, MaxLines)}

\* the entries of the runs over several entries
SmallEntries ==
    { [path |-> "/s/a.io", data |-> "pw\nurl: a\nfoo"],
      [path |-> "/s/a.io", data |-> "pw\nurl:"],
      [path |-> "/s/w/mail", data |-> ""],
      [path |-> "/s/w/mail", data |-> "pw"],
      [path |-> "/s/w/mail", data |-> "k\nuser: u\nURL :b\nbar"] }

\* one entry of any path and text, or up to MaxFiles of the small entries
InputFiles ==
    {<<[path |-> p, data |-> t]>> : p \in Paths, t \in Texts}
        \cup (SeqsUpTo(SmallEntries, MaxFiles) \ {<<>>})

\* traverse joins every path from the walked directory
Under(base, path) == StartsAt(path, 1, base \o "/")

(***************************************************************************)
(* pass2bw.py: parse                                                       *)
(***************************************************************************)

VARIABLES
    base_dir,             \* parse's argument base_dir
    files,                \* parse's argument files: [path, data] records
    FIELD_PATTERNS,       \* the imported pattern dict, in its order
    pc,                   \* where parse stands
    file_index,           \* the position of "for file in files"
    row,                  \* locals of parse, kept from one entry to the next
    lines,
    found_fields,
    fallback_field_lines,
    line_index,           \* the position of "for line in lines"
    parsed,
    out,                  \* what print() has written
    result                \* what parse returned

vars == <<base_dir, files, FIELD_PATTERNS, pc, file_index, row, lines, found_fields,
          fallback_field_lines, line_index, parsed, out, result>>

file == files[file_index]

EmptyWarning(path) == [msg |-> "empty", field |-> "", path |-> path]

DuplicateWarning(field, path) == [msg |-> "duplicate", field |-> field, path |-> path]

\* for field in FIELD_DEFAULTS: row[field] = FIELD_DEFAULTS[field]
RECURSIVE ApplyDefaults(_, _)
ApplyDefaults(r, i) ==
    IF i > Len(FIELD_DEFAULTS) THEN r
    ELSE ApplyDefaults(Put(r, FIELD_DEFAULTS[i].field, FIELD_DEFAULTS[i].value), i + 1)

\* for field in FIELD_FUNCTIONS: row[field] = FIELD_FUNCTIONS[field](base_dir, path, data)
RECURSIVE ApplyFunctions(_, _, _, _)
ApplyFunctions(r, i, base, f) ==
    IF i > Len(FIELD_FUNCTION_NAMES) THEN r
    ELSE ApplyFunctions(
             Put(r, FIELD_FUNCTION_NAMES[i],
                 FIELD_FUNCTIONS(FIELD_FUNCTION_NAMES[i], base, f.path, f.data)),
             i + 1, base, f)

\* row = {} and the two population loops
InitialRow(base, f) == ApplyFunctions(ApplyDefaults(EmptyRow, 1), 1, base, f)

\* found_fields created once, before the loop over the files
FreshFoundFields_KeptAcrossFiles == found_fields

\* found_fields = set()
FreshFoundFields == {}

\* fallback_field_lines = []
FreshFallbackLines == <<>>

\* the first line left in the list
RestOfLines_NotSliced(ls) == ls

\* lines = lines[1:]
RestOfLines(ls) == Tail(ls)

\* a pattern loop that never looks at found_fields
AlreadyFound_Never(field, found) == FALSE

\* if field in found_fields
AlreadyFound(field, found) == field \in found

\* the locals one entry's processing reads and writes
Locals(r, ls, found, fallback, o) ==
    [row |-> r, lines |-> ls, found_fields |-> found, fallback_field_lines |-> fallback,
     out |-> o]

\* if FIRSTLINE_IS_LOGIN_PASSWORD and lines: ...; fallback_field_lines = []
AfterFirstLine(st) ==
    LET first == IF FIRSTLINE_IS_LOGIN_PASSWORD /\ st.lines # <<>>
                 THEN [st EXCEPT !.row = Put(st.row, "login_password", st.lines[1]),
                                 !.found_fields = @ \cup {"login_password"},
                                 !.lines = RestOfLines(st.lines)]
                 ELSE st
    IN  [first EXCEPT !.fallback_field_lines = FreshFallbackLines]

\* for field, pattern in FIELD_PATTERNS.items() from its i-th pair on; .broke
\* tells whether the loop ended by break
RECURSIVE ScanPatterns(_, _, _, _, _)
ScanPatterns(pats, i, line, path, st) ==
    IF i > Len(pats) THEN [st |-> st, broke |-> FALSE]
    ELSE LET match == ReMatch(pats[i].pattern, line)
             field == pats[i].field
         IN  IF match.ok
             THEN IF AlreadyFound(field, st.found_fields)
                  THEN \* print the warning; continue: on to the next pattern
                       ScanPatterns(pats, i + 1, line, path,
                           [st EXCEPT !.out = Append(@, DuplicateWarning(field, path))])
                  ELSE \* break
                       [st |-> [st EXCEPT !.row = Put(st.row, field, match.group),
                                          !.found_fields = @ \cup {field}],
                        broke |-> TRUE]
             ELSE ScanPatterns(pats, i + 1, line, path, st)

\* one pass of "for line in lines": the pattern loop and its else clause
LineStep(pats, line, path, st) ==
    LET scan == ScanPatterns(pats, 1, line, path, st)
    IN  IF scan.broke THEN scan.st
        ELSE [scan.st EXCEPT
                 !.fallback_field_lines = Append(@, line),
                 !.found_fields = IF FALLBACK_FIELD \notin @ THEN @ \cup {FALLBACK_FIELD} ELSE @]

\* the fields the completion loop goes through, with only the pattern fields
FieldsToFill_PatternFields == <<"login_totp", "login_uri", "login_username">>

\* the fields the completion loop goes through: for field in CSV_FIELDS
FieldsToFill == CSV_FIELDS

\* for field in CSV_FIELDS: if field not in row: row[field] = ''
RECURSIVE FillMissing(_, _)
FillMissing(r, i) ==
    IF i > Len(FieldsToFill) THEN r
    ELSE FillMissing(IF FieldsToFill[i] \notin DOMAIN r THEN Put(r, FieldsToFill[i], "") ELSE r,
                     i + 1)

\* what follows the line loop: the fallback field, the missing fields, the URI guess
FinishedRow(st) ==
    LET withFallback == IF FALLBACK_FIELD \in st.found_fields
                        THEN Put(st.row, FALLBACK_FIELD, Join("\n", st.fallback_field_lines))
                        ELSE st.row
        filled == FillMissing(withFallback, 1)
    IN  IF filled["login_uri"] = ""
        THEN Put(filled, "login_uri", _guess_uri(filled))
        ELSE filled

TypeOK ==
    /\ pc \in {"for_file", "if_empty", "for_line", "done"}
    /\ file_index \in 1..(Len(files) + 1)
    /\ pc = "for_line" => line_index \in 1..(Len(lines) + 1)

Init ==
    /\ base_dir \in BaseDirs
    /\ files \in InputFiles
    /\ \A i \in 1..Len(files) : Under(base_dir, files[i].path)
    /\ FIELD_PATTERNS \in PatternConfigs
    /\ pc = "for_file"
    /\ file_index = 1
    /\ row = EmptyRow
    /\ lines = <<>>
    /\ found_fields = {}
    /\ fallback_field_lines = <<>>
    /\ line_index = 1
    /\ parsed = <<>>
    /\ out = <<>>
    /\ result = <<>>

\* for file in files: the next entry; its lines, found_fields and row
NextFile ==
    /\ pc = "for_file"
    /\ file_index <= Len(files)
    /\ row' = InitialRow(base_dir, file)
    /\ lines' = SplitLines(file.data)
    /\ found_fields' = FreshFoundFields
    /\ pc' = "if_empty"
    /\ UNCHANGED <<base_dir, files, FIELD_PATTERNS, file_index, fallback_field_lines,
                   line_index, parsed, out, result>>

\* if not lines: warn, append the row as it is, continue
EmptyFile ==
    /\ pc = "if_empty"
    /\ lines = <<>>
    /\ out' = Append(out, EmptyWarning(file.path))
    /\ parsed' = Append(parsed, row)
    /\ file_index' = file_index + 1
    /\ pc' = "for_file"
    /\ UNCHANGED <<base_dir, files, FIELD_PATTERNS, row, lines, found_fields,
                   fallback_field_lines, line_index, result>>

\* the first line as the password; the line loop starts
FirstLine ==
    /\ pc = "if_empty"
    /\ lines # <<>>
    /\ LET st == AfterFirstLine(Locals(row, lines, found_fields, fallback_field_lines, out))
       IN  /\ row' = st.row
           /\ lines' = st.lines
           /\ found_fields' = st.found_fields
           /\ fallback_field_lines' = st.fallback_field_lines
    /\ line_index' = 1
    /\ pc' = "for_line"
    /\ UNCHANGED <<base_dir, files, FIELD_PATTERNS, file_index, parsed, out, result>>

\* for line in lines: one line through the patterns
Line ==
    /\ pc = "for_line"
    /\ line_index <= Len(lines)
    /\ LET st == LineStep(FIELD_PATTERNS, lines[line_index], file.path,
                          Locals(row, lines, found_fields, fallback_field_lines, out))
       IN  /\ row' = st.row
           /\ found_fields' = st.found_fields
           /\ fallback_field_lines' = st.fallback_field_lines
           /\ out' = st.out
    /\ line_index' = line_index + 1
    /\ UNCHANGED <<base_dir, files, FIELD_PATTERNS, pc, file_index, lines, parsed, result>>

\* the line loop is over: complete the row and append it
Finish ==
    /\ pc = "for_line"
    /\ line_index > Len(lines)
    /\ row' = FinishedRow(Locals(row, lines, found_fields, fallback_field_lines, out))
    /\ parsed' = Append(parsed, row')
    /\ file_index' = file_index + 1
    /\ pc' = "for_file"
    /\ UNCHANGED <<base_dir, files, FIELD_PATTERNS, lines, found_fields,
                   fallback_field_lines, line_index, out, result>>

\* return parsed
Return ==
    /\ pc = "for_file"
    /\ file_index > Len(files)
    /\ result' = parsed
    /\ pc' = "done"
    /\ UNCHANGED <<base_dir, files, FIELD_PATTERNS, file_index, row, lines, found_fields,
                   fallback_field_lines, line_index, parsed, out>>

Next == NextFile \/ EmptyFile \/ FirstLine \/ Line \/ Finish \/ Return

Spec == Init /\ [][Next]_vars

(***************************************************************************)
(* Properties                                                              *)
(***************************************************************************)

Schema == {CSV_FIELDS[i] : i \in 1..Len(CSV_FIELDS)}

PopulatedFields ==
    {FIELD_DEFAULTS[i].field : i \in 1..Len(FIELD_DEFAULTS)}
        \cup {FIELD_FUNCTION_NAMES[i] : i \in 1..Len(FIELD_FUNCTION_NAMES)}

\* the lines of the i-th entry
EntryLines(i) == SplitLines(files[i].data)

Matches(k, line) == ReMatch(FIELD_PATTERNS[k].pattern, line).ok

MatchesNone(line) == \A k \in 1..Len(FIELD_PATTERNS) : ~Matches(k, line)

\* the earliest-declared pattern that matches the line names a field already found
EarliestMatchFound(line) ==
    \E k \in 1..Len(FIELD_PATTERNS) :
        /\ Matches(k, line)
        /\ \A j \in 1..(k - 1) : ~Matches(j, line)
        /\ FIELD_PATTERNS[k].field \in found_fields

\* parse stands between two entries or has returned: parsed holds the records of
\* the entries gone through, and no entry is half-processed
RecordsEmitted == pc \in {"for_file", "done"}

\* a step of the line loop is about to process lines[line_index]
AtLine == pc = "for_line" /\ line_index <= Len(lines)

RECURSIVE UnmatchedLines(_)
UnmatchedLines(ls) ==
    IF ls = <<>> THEN <<>>
    ELSE (IF MatchesNone(Head(ls)) THEN <<Head(ls)>> ELSE <<>>) \o UnmatchedLines(Tail(ls))

C2_DuplicateDropped ==
    [][(AtLine /\ EarliestMatchFound(lines[line_index]))
        => /\ row' = row
           /\ found_fields' = found_fields
           /\ fallback_field_lines' = fallback_field_lines]_vars

C4_FallbackIsUnmatched ==
    \A i \in 1..Len(parsed) :
        EntryLines(i) # <<>>
            => parsed[i]["notes"] = Join("\n", UnmatchedLines(Tail(EntryLines(i))))

\* C5: with FIRSTLINE_IS_LOGIN_PASSWORD, the record of an entry with a line has
\* the first line as login_password, and the first line takes no part in what
\* follows: the line loop runs over the other lines only, a pattern that only
\* the first line matches sets no field, and the fallback lines come from the
\* other lines.
C5_FirstLinePolicy ==
    /\ pc = "for_line"
        => LET all == EntryLines(file_index)
           IN  /\ row["login_password"] = Head(all)
               /\ lines = Tail(all)
               /\ \A k \in 1..Len(fallback_field_lines) :
                     \E j \in 1..(line_index - 1) : lines[j] = fallback_field_lines[k]
    /\ RecordsEmitted
        => \A i \in 1..Len(parsed) :
              EntryLines(i) # <<>>
                => LET r == parsed[i]
                       first == Head(EntryLines(i))
                       rest == Tail(EntryLines(i))
                       notes == SplitLines(r["notes"])
                   IN  /\ r["login_password"] = first
                       /\ \A k \in 1..Len(FIELD_PATTERNS) :
                             (\A j \in 1..Len(rest) : ~Matches(k, rest[j]))
                                => \/ r[FIELD_PATTERNS[k].field] = ""
                                   \/ /\ FIELD_PATTERNS[k].field = "login_uri"
                                      /\ r["login_uri"] = r["name"]
                       /\ (\A j \in 1..Len(rest) : rest[j] # first)
                             => \A j \in 1..Len(notes) : notes[j] # first

\* a first line that the url pattern matches became the password and set no URI
C5_Witness ==
    /\ pc = "done"
    /\ \E i \in 1..Len(result) :
        /\ EntryLines(i) # <<>>
        /\ ReMatch(UriPattern, Head(EntryLines(i))).ok
        /\ result[i]["login_password"] = Head(EntryLines(i))
        /\ result[i]["login_uri"] = ""
        /\ result[i]["notes"] # ""

\* C6: a line sets the field of no pattern declared after another pattern that
\* matches the line too.
C6_EarliestPatternOnly ==
    [][AtLine
        => \A j, k \in 1..Len(FIELD_PATTERNS) :
              (j < k /\ Matches(j, lines[line_index]) /\ Matches(k, lines[line_index]))
                 => ~(/\ FIELD_PATTERNS[k].field \notin found_fields
                      /\ FIELD_PATTERNS[k].field \in found_fields')]_vars

\* C7's hostname shape: one or more dot-terminated labels, then a final label of
\* 2 to 6 alphabetic characters that ends the name
HostnameShaped(s) ==
    \E p \in LabelEnds(s, 1) :
        /\ Len(s) - p + 1 >= TldMin
        /\ Len(s) - p + 1 <= TldMax
        /\ \A i \in p..Len(s) : IsAlpha(Char(s, i))

\* C7: when the content sets no login_uri, the record's login_uri is its name if
\* the whole name is hostname-shaped, and the empty string otherwise.
C7_UriInference ==
    \A i \in 1..Len(parsed) :
        (/\ EntryLines(i) # <<>>
         /\ \A k \in 1..Len(FIELD_PATTERNS) : \A j \in 1..Len(Tail(EntryLines(i))) :
               FIELD_PATTERNS[k].field = "login_uri" => ~Matches(k, Tail(EntryLines(i))[j]))
            => parsed[i]["login_uri"] =
                  IF HostnameShaped(parsed[i]["name"]) THEN parsed[i]["name"] ELSE ""

\* the line loop over ls, from the locals st
RECURSIVE AfterLines(_, _, _, _)
AfterLines(pats, ls, path, st) ==
    IF ls = <<>> THEN st
    ELSE AfterLines(pats, Tail(ls), path, LineStep(pats, Head(ls), path, st))

\* the record of parse(base, [f]): a call of its own, its locals newly created
ParseAlone(base, f, pats) ==
    LET st == Locals(InitialRow(base, f), SplitLines(f.data), {}, <<>>, <<>>)
        first == AfterFirstLine(st)
    IN  IF st.lines = <<>> THEN st.row
        ELSE FinishedRow(AfterLines(pats, first.lines, f.path, first))

\* C8: the records are in the entries' order, one per entry, and the i-th is the
\* record parse gives for the i-th entry alone: nothing carries over from one
\* entry to the next.
C8_Independent ==
    /\ RecordsEmitted
        => /\ Len(parsed) = file_index - 1
           /\ \A i \in 1..Len(parsed) :
                 parsed[i] = ParseAlone(base_dir, files[i], FIELD_PATTERNS)
    /\ pc = "done" => result = parsed /\ Len(result) = Len(files)

\* three entries, an empty one in the middle, the first leaving fields found and
\* fallback lines behind, the last with a line of its own
C8_Witness ==
    /\ pc = "done"
    /\ Len(files) = 3
    /\ EntryLines(2) = <<>>
    /\ Len(EntryLines(1)) = 3
    /\ result[1]["notes"] # ""
    /\ result[1]["login_uri"] # result[1]["name"]
    /\ Len(EntryLines(3)) = 1
    /\ result[3]["notes"] = ""
    /\ result[3]["login_uri"] = ""

\* C9: the step that processes a line prints exactly one duplicate warning when
\* the line's earliest matching pattern names a field already found, and none
\* otherwise.
C9_OneWarningPerDuplicate ==
    [][AtLine
        => Len(out') - Len(out) =
              IF EarliestMatchFound(lines[line_index]) THEN 1 ELSE 0]_vars

\* s without its leading base, when it starts with base
StripPrefix(s, base) == IF StartsAt(s, 1, base) THEN From(s, Len(base) + 1) ELSE s

\* C10: the folder is the entry's parent directory without the leading base
\* directory and without leading "/"; a later occurrence of the base string in
\* the path stays.
C10_FolderPrefixOnly ==
    \A i \in 1..Len(parsed) :
        parsed[i]["folder"] = LStrip(StripPrefix(Dirname(files[i].path), base_dir), "/")

====
